---- MODULE Spec2Model ----
(***************************************************************************)
(* Model of the Terraform/Terragrunt dependency analyzer                  *)
(* (terraform-dependency-analyzer-enhanced.py): registry population from  *)
(* terragrunt.hcl and .tf files, graph construction, cycle enumeration,   *)
(* simple-path enumeration and impact analysis.                            *)
(*                                                                         *)
(* Representation.  A dotted expression is the sequence of its segments   *)
(* (module.vpc.id is <<"module","vpc","id">>); a payload (the str() of a  *)
(* parsed dict) is the sequence of the expressions that occur in it, one  *)
(* per key; a config_path is the sequence of its '/'-separated parts.     *)
(***************************************************************************)
EXTENDS Integers, Sequences, FiniteSets, TLC

VARIABLES
    modules,                \* dependency_graph.modules: name -> ModuleInfo
    nodes,                  \* dependency_graph.graph nodes
    edges,                  \* dependency_graph.graph edges, <<from, to>>
    circular_dependencies,  \* dependency_graph.circular_dependencies
    dependency_paths,       \* dependency_graph.dependency_paths
    impact_analysis,        \* dependency_graph.impact_analysis
    impact_report,          \* value returned by generate_impact_report
    pc,                     \* position inside analyze()
    nFiles,                 \* number of files handed to the parsers so far
    current_file,           \* file_path of the parser loops: the file last handed over
    declared,               \* history: module names declared by the files parsed
    basic_modules,          \* dependency_graph.modules of TerraformDependencyAnalyzer
                            \* run on the same files
    inputs_name_module      \* history: the inputs of some terragrunt.hcl parsed so
                            \* far hold a module.<name>.<attr> expression

vars == <<modules, nodes, edges, circular_dependencies, dependency_paths,
          impact_analysis, impact_report, pc, nFiles, current_file, declared,
          basic_modules, inputs_name_module>>

\* Number of configuration files found by find_configuration_files.
MaxFiles == 3

\* `len(impact_set) > 3` in generate_impact_report.
HighImpactThreshold == 3

\* the bounds of the complexity buckets in analyze()
HighComplexityThreshold == 10
MediumComplexityThreshold == 5

-----------------------------------------------------------------------------
(* Generic helpers *)

RECURSIVE SetToSeq(_)
SetToSeq(S) ==
    IF S = {} THEN <<>>
    ELSE LET x == CHOOSE y \in S : TRUE IN <<x>> \o SetToSeq(S \ {x})

Range(s) == {s[i] : i \in 1..Len(s)}

Last(s) == s[Len(s)]

\* modules[k] = v on a dict
Put(m, k, v) == [x \in (DOMAIN m) \cup {k} |-> IF x = k THEN v ELSE m[x]]

-----------------------------------------------------------------------------
(* Data classes *)

\* DependencyInfo(source_module, target_module, dependency_type, reference_path)
DependencyInfo(src, tgt, type, path) ==
    [source_module |-> src, target_module |-> tgt,
     dependency_type |-> type, reference_path |-> path]

\* ModuleInfo(name=...) with every list/dict field at its default
ModuleInfo(name) ==
    [name |-> name,
     variables |-> <<>>,
     outputs |-> <<>>,
     dependencies |-> <<>>,
     terragrunt_dependencies |-> <<>>,
     data_sources |-> <<>>,
     resources |-> <<>>,
     dependency_details |-> <<>>,
     complexity_score |-> 0]

-----------------------------------------------------------------------------
(* The three regular expressions, applied with re.findall: the scan goes   *)
(* left to right and resumes after each match.                             *)

\* r'module\.([a-zA-Z0-9_-]+)\.([a-zA-Z0-9_-]+)' on one expression
RECURSIVE ModuleRefsFrom(_, _)
ModuleRefsFrom(e, i) ==
    IF i + 2 > Len(e) THEN <<>>
    ELSE IF e[i] = "module"
         THEN << <<e[i+1], e[i+2]>> >> \o ModuleRefsFrom(e, i + 3)
         ELSE ModuleRefsFrom(e, i + 1)

\* r'data\.([a-zA-Z0-9_-]+)\.([a-zA-Z0-9_-]+)\.([a-zA-Z0-9_-]+)'
RECURSIVE DataRefsFrom(_, _)
DataRefsFrom(e, i) ==
    IF i + 3 > Len(e) THEN <<>>
    ELSE IF e[i] = "data"
         THEN << <<e[i+1], e[i+2], e[i+3]>> >> \o DataRefsFrom(e, i + 4)
         ELSE DataRefsFrom(e, i + 1)

\* r'data\.terraform_remote_state\.([a-zA-Z0-9_-]+)\.outputs\.([a-zA-Z0-9_-]+)'
RECURSIVE RemoteStateRefsFrom(_, _)
RemoteStateRefsFrom(e, i) ==
    IF i + 4 > Len(e) THEN <<>>
    ELSE IF e[i] = "data" /\ e[i+1] = "terraform_remote_state" /\ e[i+3] = "outputs"
         THEN << <<e[i+2], e[i+4]>> >> \o RemoteStateRefsFrom(e, i + 5)
         ELSE RemoteStateRefsFrom(e, i + 1)

\* findall over the whole payload string: matches of every expression, in order
RECURSIVE ModuleRefs(_)
ModuleRefs(payload) ==
    IF payload = <<>> THEN <<>>
    ELSE ModuleRefsFrom(Head(payload), 1) \o ModuleRefs(Tail(payload))

RECURSIVE DataRefs(_)
DataRefs(payload) ==
    IF payload = <<>> THEN <<>>
    ELSE DataRefsFrom(Head(payload), 1) \o DataRefs(Tail(payload))

RECURSIVE RemoteStateRefs(_)
RemoteStateRefs(payload) ==
    IF payload = <<>> THEN <<>>
    ELSE RemoteStateRefsFrom(Head(payload), 1) \o RemoteStateRefs(Tail(payload))

-----------------------------------------------------------------------------
(* Reference extraction for one module *)

\* first loop of _analyze_variable_dependencies / loop of
\* _extract_module_dependencies: `type` is the dependency_type written
\* variant: the self-match test is left out
RECURSIVE AddModuleRefsKeepSelf(_, _, _)
AddModuleRefsKeepSelf(info, refs, type) ==
    IF refs = <<>> THEN info
    ELSE AddModuleRefsKeepSelf(
             [info EXCEPT
                !.dependencies = Append(@, Head(refs)[1]),
                !.dependency_details = Append(@,
                    DependencyInfo(info.name, Head(refs)[1], type,
                                   <<"module", Head(refs)[1], Head(refs)[2]>>))],
             Tail(refs), type)

RECURSIVE AddModuleRefs(_, _, _)
AddModuleRefs(info, refs, type) ==
    IF refs = <<>> THEN info
    ELSE LET r == Head(refs)
             next == IF r[1] # info.name
                     THEN [info EXCEPT
                             !.dependencies = Append(@, r[1]),
                             !.dependency_details = Append(@,
                                 DependencyInfo(info.name, r[1], type,
                                                <<"module", r[1], r[2]>>))]
                     ELSE info
         IN AddModuleRefs(next, Tail(refs), type)

\* second loop of _analyze_variable_dependencies
RECURSIVE AddDataRefs(_, _)
AddDataRefs(info, refs) ==
    IF refs = <<>> THEN info
    ELSE LET r == Head(refs)
             next == [info EXCEPT
                        !.data_sources = Append(@, <<r[1], r[2]>>),
                        !.dependency_details = Append(@,
                            DependencyInfo(info.name, <<r[1], r[2]>>, "data_source",
                                           <<"data", r[1], r[2], r[3]>>))]
         IN AddDataRefs(next, Tail(refs))

\* third loop of _analyze_variable_dependencies
RECURSIVE AddRemoteStateRefs(_, _)
AddRemoteStateRefs(info, refs) ==
    IF refs = <<>> THEN info
    ELSE LET r == Head(refs)
             next == [info EXCEPT
                        !.dependency_details = Append(@,
                            DependencyInfo(info.name, <<"remote_state", r[1]>>,
                                           "remote_state",
                                           <<"data", "terraform_remote_state", r[1],
                                             "outputs", r[2]>>))]
         IN AddRemoteStateRefs(next, Tail(refs))

AnalyzeVariableDependencies(info, variables) ==
    AddRemoteStateRefs(
        AddDataRefs(
            AddModuleRefs(info, ModuleRefs(variables), "module_output"),
            DataRefs(variables)),
        RemoteStateRefs(variables))

ExtractModuleDependencies(info, config) ==
    AddModuleRefs(info, ModuleRefs(config), "module_reference")

\* variant: data sources are taken off the score
CalculateComplexityScoreMinus(info) ==
    1 + Len(info.dependencies) * 2
      + Len(info.terragrunt_dependencies) * 2
      + Len(info.variables)
      + Len(info.outputs)
      - Len(info.data_sources) * 3
      + Len(info.resources) * 2

CalculateComplexityScore(info) ==
    1 + Len(info.dependencies) * 2
      + Len(info.terragrunt_dependencies) * 2
      + Len(info.variables)
      + Len(info.outputs)
      + Len(info.data_sources) * 3
      + Len(info.resources) * 2

-----------------------------------------------------------------------------
(* parse_terragrunt_file *)

\* variant: one parent-traversal segment is enough
StartsWithParent(parts) ==
    Len(parts) >= 2 /\ parts[1] = ".."

\* config_path.startswith('../../'), on the parts of config_path.split('/')
StartsWithParentParent(parts) ==
    Len(parts) >= 3 /\ parts[1] = ".." /\ parts[2] = ".."

\* variant: the name is appended without its DependencyInfo
RECURSIVE AddTerragruntDependenciesNoRecord(_, _)
AddTerragruntDependenciesNoRecord(info, cfgs) ==
    IF cfgs = <<>> THEN info
    ELSE LET parts == Head(cfgs)
             next == IF StartsWithParentParent(parts) /\ Len(parts) >= 2
                     THEN [info EXCEPT
                             !.terragrunt_dependencies = Append(@, Last(parts))]
                     ELSE info
         IN AddTerragruntDependenciesNoRecord(next, Tail(cfgs))

\* the `dependency` loop: one entry of `cfgs` per dependency block
RECURSIVE AddTerragruntDependencies(_, _)
AddTerragruntDependencies(info, cfgs) ==
    IF cfgs = <<>> THEN info
    ELSE LET parts == Head(cfgs)
             next == IF StartsWithParentParent(parts) /\ Len(parts) >= 2
                     THEN [info EXCEPT
                             !.terragrunt_dependencies = Append(@, Last(parts)),
                             !.dependency_details = Append(@,
                                 DependencyInfo(info.name, Last(parts),
                                                "terragrunt", parts))]
                     ELSE info
         IN AddTerragruntDependencies(next, Tail(cfgs))

\* The ModuleInfo returned for a file that parses
\* (f.dir is file_path.parent.name).
TerragruntModuleInfo(f) ==
    LET i0 == ModuleInfo(f.dir)
        i1 == AddTerragruntDependencies(i0, f.dependency)
        i2 == IF f.hasInputs
              THEN AnalyzeVariableDependencies(
                       [i1 EXCEPT !.variables = f.inputs], f.inputs)
              ELSE i1
    IN [i2 EXCEPT !.complexity_score = CalculateComplexityScore(i2)]

-----------------------------------------------------------------------------
(* parse_terraform_files, body of the loop for one file *)

\* One `module` block: [name, hasVariables, variables, attrs].  str(module_config)
\* holds the variables payload followed by the block's other attributes.
ModuleConfigPayload(b) ==
    (IF b.hasVariables THEN b.variables ELSE <<>>) \o b.attrs

InlineModuleInfo(b) ==
    LET i0 == ModuleInfo(b.name)
        i1 == IF b.hasVariables
              THEN AnalyzeVariableDependencies(
                       [i0 EXCEPT !.variables = b.variables], b.variables)
              ELSE i0
    IN ExtractModuleDependencies(i1, ModuleConfigPayload(b))

RECURSIVE AddModuleBlocks(_, _)
AddModuleBlocks(mods, blocks) ==
    IF blocks = <<>> THEN mods
    ELSE AddModuleBlocks(
             Put(mods, Head(blocks).name, InlineModuleInfo(Head(blocks))),
             Tail(blocks))

\* Loop shared by _analyze_data_source_dependencies and
\* _analyze_resource_dependencies: the record is appended to the descriptor
\* of the referenced module, when that module is registered.
\* variant: a referenced module that is not registered gets a descriptor
RECURSIVE AppendToReferencedOrCreate(_, _, _, _)
AppendToReferencedOrCreate(mods, refs, src, type) ==
    IF refs = <<>> THEN mods
    ELSE LET r == Head(refs)
             base == IF r[1] \in DOMAIN mods THEN mods
                     ELSE Put(mods, r[1], ModuleInfo(r[1]))
             next == [base EXCEPT ![r[1]].dependency_details = Append(@,
                          DependencyInfo(src, r[1], type, <<"module", r[1], r[2]>>))]
         IN AppendToReferencedOrCreate(next, Tail(refs), src, type)

RECURSIVE AppendToReferenced(_, _, _, _)
AppendToReferenced(mods, refs, src, type) ==
    IF refs = <<>> THEN mods
    ELSE LET r == Head(refs)
             next == IF r[1] \in DOMAIN mods
                     THEN [mods EXCEPT ![r[1]].dependency_details = Append(@,
                              DependencyInfo(src, r[1], type,
                                             <<"module", r[1], r[2]>>))]
                     ELSE mods
         IN AppendToReferenced(next, Tail(refs), src, type)

AnalyzeDataSourceDependencies(mods, data_name, config) ==
    AppendToReferenced(mods, ModuleRefs(config), <<"data", data_name>>,
                       "data_source_module")

AnalyzeResourceDependencies(mods, resource_type, config) ==
    AppendToReferenced(mods, ModuleRefs(config), <<"resource", resource_type>>,
                       "resource_module")

RECURSIVE AddOutputRefs(_, _)
AddOutputRefs(mods, refs) ==
    IF refs = <<>> THEN mods
    ELSE LET r == Head(refs)
             next == IF r[1] \in DOMAIN mods /\ r[2] \notin Range(mods[r[1]].outputs)
                     THEN [mods EXCEPT ![r[1]].outputs = Append(@, r[2])]
                     ELSE mods
         IN AddOutputRefs(next, Tail(refs))

AnalyzeOutputDependencies(mods, value) == AddOutputRefs(mods, ModuleRefs(value))

RECURSIVE AddDataBlocks(_, _)
AddDataBlocks(mods, blocks) ==
    IF blocks = <<>> THEN mods
    ELSE AddDataBlocks(
             AnalyzeDataSourceDependencies(mods, Head(blocks).name, Head(blocks).config),
             Tail(blocks))

RECURSIVE AddOutputBlocks(_, _)
AddOutputBlocks(mods, blocks) ==
    IF blocks = <<>> THEN mods
    ELSE AddOutputBlocks(
             IF Head(blocks).hasValue
             THEN AnalyzeOutputDependencies(mods, Head(blocks).value)
             ELSE mods,
             Tail(blocks))

RECURSIVE AddResourceBlocks(_, _)
AddResourceBlocks(mods, blocks) ==
    IF blocks = <<>> THEN mods
    ELSE AddResourceBlocks(
             AnalyzeResourceDependencies(mods, Head(blocks).type, Head(blocks).config),
             Tail(blocks))

\* module blocks, then data, then output, then resource blocks; an exception
\* raised by a section ends the file and keeps what was done before it
TerraformFileEffect(mods, f) ==
    LET m1 == AddModuleBlocks(mods, f.module)
        m2 == AddDataBlocks(m1, f.data)
        m3 == AddOutputBlocks(m2, f.output)
    IN IF f.malformed = "data" THEN m1
       ELSE IF f.malformed = "output" THEN m2
       ELSE IF f.malformed = "resource" THEN m3
       ELSE AddResourceBlocks(m3, f.resource)

-----------------------------------------------------------------------------
(* build_dependency_graph.  A graph is [nodes, edges]; DiGraph.add_edge    *)
(* creates the endpoints it does not find, and an edge added twice is one  *)
(* edge.                                                                   *)

AddNode(g, n) == [g EXCEPT !.nodes = @ \cup {n}]

\* variant: the edge points from the dependent to its dependency
AddEdgeReversed(g, u, v) ==
    [nodes |-> g.nodes \cup {u, v}, edges |-> g.edges \cup {<<v, u>>}]

\* graph.add_edge(u, v) on a DiGraph: a second add of the same edge adds nothing
AddEdge(g, u, v) ==
    [nodes |-> g.nodes \cup {u, v}, edges |-> g.edges \cup {<<u, v>>}]

\* `for dep in <list>: if dep in modules: graph.add_edge(dep, module_name)`
\* variant: the membership test is left out
RECURSIVE AddDependencyEdgesUnguarded(_, _, _, _)
AddDependencyEdgesUnguarded(g, mods, deps, module_name) ==
    IF deps = <<>> THEN g
    ELSE AddDependencyEdgesUnguarded(AddEdge(g, Head(deps), module_name),
                                     mods, Tail(deps), module_name)

RECURSIVE AddDependencyEdges(_, _, _, _)
AddDependencyEdges(g, mods, deps, module_name) ==
    IF deps = <<>> THEN g
    ELSE AddDependencyEdges(
             IF Head(deps) \in DOMAIN mods
             THEN AddEdge(g, Head(deps), module_name)
             ELSE g,
             mods, Tail(deps), module_name)

RECURSIVE AddAllNodes(_, _)
AddAllNodes(g, names) ==
    IF names = <<>> THEN g
    ELSE AddAllNodes(AddNode(g, Head(names)), Tail(names))

RECURSIVE AddAllEdges(_, _, _)
AddAllEdges(g, mods, names) ==
    IF names = <<>> THEN g
    ELSE LET m == Head(names)
             g1 == AddDependencyEdges(g, mods, mods[m].dependencies, m)
             g2 == AddDependencyEdges(g1, mods, mods[m].terragrunt_dependencies, m)
         IN AddAllEdges(g2, mods, Tail(names))

BuildGraph(g, mods) ==
    LET names == SetToSeq(DOMAIN mods)
    IN AddAllEdges(AddAllNodes(g, names), mods, names)

-----------------------------------------------------------------------------
(* Graph library calls (networkx), modelled by their documented results.   *)

Successors(E, v) == {e[2] : e \in {x \in E : x[1] = v}}

\* nx.simple_cycles: every elementary cycle once.  The cycles through a
\* root are searched among the root and the nodes that come after it in the
\* node order, so that a cycle is found from one of its nodes only.
RECURSIVE CyclesFrom(_, _, _, _)
RECURSIVE CyclesVia(_, _, _, _, _)
CyclesFrom(E, root, allowed, path) ==
    LET v == Last(path)
        closing == IF <<v, root>> \in E THEN << path >> ELSE <<>>
        onward == SetToSeq((Successors(E, v) \cap allowed) \ Range(path))
    IN closing \o CyclesVia(E, root, allowed, path, onward)
CyclesVia(E, root, allowed, path, ws) ==
    IF ws = <<>> THEN <<>>
    ELSE CyclesFrom(E, root, allowed, Append(path, Head(ws)))
         \o CyclesVia(E, root, allowed, path, Tail(ws))

\* variant: every search may visit every node
CycleSearchNodesAll(order, k) == {order[j] : j \in 1..Len(order)}

\* the nodes a search rooted at order[k] may visit
CycleSearchNodes(order, k) == {order[j] : j \in k..Len(order)}

RECURSIVE CyclesOfRoots(_, _, _)
CyclesOfRoots(E, order, k) ==
    IF k > Len(order) THEN <<>>
    ELSE CyclesFrom(E, order[k], CycleSearchNodes(order, k), << order[k] >>)
         \o CyclesOfRoots(E, order, k + 1)

\* variant: self-loops are not searched
SimpleCyclesNoSelfLoops(N, E) ==
    CyclesOfRoots({e \in E : e[1] # e[2]}, SetToSeq(N), 1)

SimpleCycles(N, E) == CyclesOfRoots(E, SetToSeq(N), 1)

\* nx.all_simple_paths(G, source, target), source # target: depth-first,
\* a path ends when it reaches the target and never repeats a node
RECURSIVE PathsFrom(_, _, _)
RECURSIVE PathsVia(_, _, _, _)
PathsFrom(E, target, path) ==
    PathsVia(E, target, path, SetToSeq(Successors(E, Last(path)) \ Range(path)))
PathsVia(E, target, path, ws) ==
    IF ws = <<>> THEN <<>>
    ELSE (IF Head(ws) = target
          THEN << Append(path, target) >>
          ELSE PathsFrom(E, target, Append(path, Head(ws))))
         \o PathsVia(E, target, path, Tail(ws))

AllSimplePaths(E, source, target) == PathsFrom(E, target, << source >>)

\* nx.has_path(G, source, target): breadth-first search from source
RECURSIVE ReachedFrom(_, _)
ReachedFrom(E, seen) ==
    LET more == seen \cup UNION {Successors(E, v) : v \in seen}
    IN IF more = seen THEN seen ELSE ReachedFrom(E, more)

\* variant: only a direct edge counts
HasPathDirect(E, source, target) == <<source, target>> \in E

HasPath(E, source, target) == target \in ReachedFrom(E, {source})

-----------------------------------------------------------------------------
(* Analyses *)

\* variant: a pair without a path keeps its key, with an empty list
DependencyPathsKeepEmpty(mods, E) ==
    [p \in {q \in (DOMAIN mods) \X (DOMAIN mods) : q[1] # q[2]} |->
        AllSimplePaths(E, p[1], p[2])]

\* analyze_dependency_paths: the key f"{source}->{target}" is the pair
DependencyPaths(mods, E) ==
    LET pairs == {p \in (DOMAIN mods) \X (DOMAIN mods) :
                     p[1] # p[2] /\ AllSimplePaths(E, p[1], p[2]) # <<>>}
    IN [p \in pairs |-> AllSimplePaths(E, p[1], p[2])]

\* variant: the module itself is not skipped
ImpactSetWithSelf(mods, E, module_name) ==
    {m \in DOMAIN mods : HasPath(E, module_name, m)}

\* analyze_impact for a registered module: the impact_set it stores and returns
ImpactSet(mods, E, module_name) ==
    {m \in DOMAIN mods : m # module_name /\ HasPath(E, module_name, m)}

\* The orders in which a set of module names can be iterated: the order of
\* list(<set of str>) follows the string hashes of the process, which differ
\* from one run to the next.  One order per run, applied to every set.
IterationOrders(N) == {s \in [1..Cardinality(N) -> N] : Range(s) = N}

\* list(S) under the iteration order `order`
ListOfSet(S, order) ==
    LET InS(x) == x \in S IN SelectSeq(order, InS)

\* variant: a module is listed from HighImpactThreshold affected modules on
RECURSIVE HighImpactEntriesAtLeast(_, _, _)
HighImpactEntriesAtLeast(impact, names, order) ==
    IF names = <<>> THEN <<>>
    ELSE (IF Cardinality(impact[Head(names)]) >= HighImpactThreshold
          THEN << [module |-> Head(names),
                   impact_count |-> Cardinality(impact[Head(names)]),
                   affected_modules |-> ListOfSet(impact[Head(names)], order)] >>
          ELSE <<>>)
         \o HighImpactEntriesAtLeast(impact, Tail(names), order)

\* generate_impact_report
RECURSIVE HighImpactEntries(_, _, _)
HighImpactEntries(impact, names, order) ==
    IF names = <<>> THEN <<>>
    ELSE (IF Cardinality(impact[Head(names)]) > HighImpactThreshold
          THEN << [module |-> Head(names),
                   impact_count |-> Cardinality(impact[Head(names)]),
                   affected_modules |-> ListOfSet(impact[Head(names)], order)] >>
          ELSE <<>>)
         \o HighImpactEntries(impact, Tail(names), order)

ImpactReport(mods, impact, order) ==
    LET high == HighImpactEntries(impact, SetToSeq(DOMAIN mods), order)
    IN [high_impact_modules |-> high,
        module_impact_analysis |->
            [m \in DOMAIN mods |->
                [affected_modules |-> ListOfSet(impact[m], order),
                 impact_count |-> Cardinality(impact[m])]],
        recommendations |-> [i \in 1..Len(high) |-> high[i].module]]

-----------------------------------------------------------------------------
(* TerraformDependencyAnalyzer, the basic analyzer: its registry *)

BasicModuleInfo(name) ==
    [name |-> name, variables |-> <<>>, outputs |-> <<>>,
     dependencies |-> <<>>, terragrunt_dependencies |-> <<>>]

\* the `dependency` loop of the basic parse_terragrunt_file
RECURSIVE BasicAddTerragruntDependencies(_, _)
BasicAddTerragruntDependencies(info, cfgs) ==
    IF cfgs = <<>> THEN info
    ELSE LET parts == Head(cfgs)
             next == IF StartsWithParentParent(parts) /\ Len(parts) >= 2
                     THEN [info EXCEPT
                             !.terragrunt_dependencies = Append(@, Last(parts))]
                     ELSE info
         IN BasicAddTerragruntDependencies(next, Tail(cfgs))

\* the ModuleInfo the basic parse_terragrunt_file returns: the inputs are
\* stored and not searched
BasicTerragruntModuleInfo(f) ==
    LET i1 == BasicAddTerragruntDependencies(BasicModuleInfo(f.dir), f.dependency)
    IN IF f.hasInputs THEN [i1 EXCEPT !.variables = f.inputs] ELSE i1

\* variant: the self-match test is left out
RECURSIVE BasicExtractVariableDependenciesKeepSelf(_, _)
BasicExtractVariableDependenciesKeepSelf(info, refs) ==
    IF refs = <<>> THEN info
    ELSE BasicExtractVariableDependenciesKeepSelf(
             [info EXCEPT !.dependencies = Append(@, Head(refs)[1])], Tail(refs))

\* _extract_variable_dependencies, on the matches `refs` of the module regex
\* in str(module_config)
RECURSIVE BasicExtractVariableDependencies(_, _)
BasicExtractVariableDependencies(info, refs) ==
    IF refs = <<>> THEN info
    ELSE LET r == Head(refs)
             next == IF r[1] # info.name
                     THEN [info EXCEPT !.dependencies = Append(@, r[1])]
                     ELSE info
         IN BasicExtractVariableDependencies(next, Tail(refs))

BasicInlineModuleInfo(b) ==
    LET i0 == BasicModuleInfo(b.name)
        i1 == IF b.hasVariables THEN [i0 EXCEPT !.variables = b.variables] ELSE i0
    IN BasicExtractVariableDependencies(i1, ModuleRefs(ModuleConfigPayload(b)))

RECURSIVE BasicAddModuleBlocks(_, _)
BasicAddModuleBlocks(mods, blocks) ==
    IF blocks = <<>> THEN mods
    ELSE BasicAddModuleBlocks(
             Put(mods, Head(blocks).name, BasicInlineModuleInfo(Head(blocks))),
             Tail(blocks))

\* the `output` loop with _extract_output_dependencies
RECURSIVE BasicAddOutputBlocks(_, _)
BasicAddOutputBlocks(mods, blocks) ==
    IF blocks = <<>> THEN mods
    ELSE BasicAddOutputBlocks(
             IF Head(blocks).hasValue
             THEN AddOutputRefs(mods, ModuleRefs(Head(blocks).value))
             ELSE mods,
             Tail(blocks))

\* The basic parse_terraform_files on one file that hcl2 parses: module blocks,
\* then outputs; data and resource sections are not read.
BasicTerraformFileEffect(mods, f) ==
    LET m1 == BasicAddModuleBlocks(mods, f.module)
    IN IF f.malformed = "output" THEN m1
       ELSE BasicAddOutputBlocks(m1, f.output)

\* the edges the basic build_dependency_graph adds for its registry
BasicEdges == BuildGraph([nodes |-> {}, edges |-> {}], basic_modules).edges

-----------------------------------------------------------------------------
(* State machine of analyze() *)

\* no file is being parsed (before the first loop and after the last)
NoFile == [kind |-> "none", ok |-> TRUE]

EmptyReport ==
    [high_impact_modules |-> <<>>, module_impact_analysis |-> <<>>,
     recommendations |-> <<>>]

Init ==
    /\ modules = <<>>
    /\ nodes = {}
    /\ edges = {}
    /\ circular_dependencies = <<>>
    /\ dependency_paths = <<>>
    /\ impact_analysis = <<>>
    /\ impact_report = EmptyReport
    /\ pc = "parse_terragrunt"
    /\ nFiles = 0
    /\ current_file = NoFile
    /\ declared = {}
    /\ basic_modules = <<>>
    /\ inputs_name_module = FALSE

\* variant: files may still be read once the graph is built
ParsingOrBuilt == pc \in {"parse_terragrunt", "parse_terraform", "built"}

\* analyze() is in one of its two file loops
Parsing == pc \in {"parse_terragrunt", "parse_terraform"}

\* one iteration of `for file_path in self.terragrunt_files` in analyze():
\* parse_terragrunt_file returns None for a file that does not parse
ParseTerragruntFile(f) ==
    /\ pc = "parse_terragrunt"
    /\ nFiles < MaxFiles
    /\ modules' = IF f.ok THEN Put(modules, f.dir, TerragruntModuleInfo(f))
                  ELSE modules
    /\ declared' = IF f.ok THEN declared \cup {f.dir} ELSE declared
    /\ basic_modules' = IF f.ok
                        THEN Put(basic_modules, f.dir, BasicTerragruntModuleInfo(f))
                        ELSE basic_modules
    /\ inputs_name_module' =
           (inputs_name_module
            \/ (f.ok /\ f.hasInputs /\ ModuleRefs(f.inputs) # <<>>))
    /\ nFiles' = nFiles + 1
    /\ current_file' = f
    /\ UNCHANGED <<nodes, edges, circular_dependencies, dependency_paths,
                   impact_analysis, impact_report, pc>>

\* one iteration of `for file_path in self.terraform_files`; hcl2.loads
\* raises for a file that does not parse and the file is skipped
ParseTerraformFile(f) ==
    /\ Parsing
    /\ nFiles < MaxFiles
    /\ modules' = IF f.ok THEN TerraformFileEffect(modules, f) ELSE modules
    /\ declared' = IF f.ok THEN declared \cup {b.name : b \in Range(f.module)}
                   ELSE declared
    /\ basic_modules' = IF f.ok THEN BasicTerraformFileEffect(basic_modules, f)
                        ELSE basic_modules
    /\ UNCHANGED inputs_name_module
    /\ nFiles' = nFiles + 1
    /\ current_file' = f
    /\ pc' = "parse_terraform"
    /\ UNCHANGED <<nodes, edges, circular_dependencies, dependency_paths,
                   impact_analysis, impact_report>>

BuildDependencyGraph ==
    /\ Parsing
    /\ LET g == BuildGraph([nodes |-> nodes, edges |-> edges], modules)
       IN /\ nodes' = g.nodes
          /\ edges' = g.edges
    /\ pc' = "built"
    /\ current_file' = NoFile
    /\ UNCHANGED <<modules, circular_dependencies, dependency_paths,
                   impact_analysis, impact_report, nFiles, declared,
                   basic_modules, inputs_name_module>>

\* variant: the cycle search raises on a graph with a self-loop, and analyze()
\* ends there
DetectCircularDependenciesRaising ==
    /\ pc = "built"
    /\ \A n \in nodes : <<n, n>> \notin edges
    /\ circular_dependencies' = SimpleCycles(nodes, edges)
    /\ pc' = "cycles"
    /\ UNCHANGED <<modules, nodes, edges, dependency_paths, impact_analysis,
                   impact_report, nFiles, current_file, declared,
                   basic_modules, inputs_name_module>>

DetectCircularDependencies ==
    /\ pc = "built"
    /\ circular_dependencies' = SimpleCycles(nodes, edges)
    /\ pc' = "cycles"
    /\ UNCHANGED <<modules, nodes, edges, dependency_paths, impact_analysis,
                   impact_report, nFiles, current_file, declared,
                   basic_modules, inputs_name_module>>

AnalyzeDependencyPaths ==
    /\ pc = "cycles"
    /\ dependency_paths' = DependencyPaths(modules, edges)
    /\ pc' = "paths"
    /\ UNCHANGED <<modules, nodes, edges, circular_dependencies, impact_analysis,
                   impact_report, nFiles, current_file, declared,
                   basic_modules, inputs_name_module>>

GenerateImpactReport ==
    /\ pc = "paths"
    /\ LET impact == [m \in DOMAIN modules |-> ImpactSet(modules, edges, m)]
       IN /\ impact_analysis' = impact
          /\ \E order \in IterationOrders(DOMAIN modules) :
                impact_report' = ImpactReport(modules, impact, order)
    /\ pc' = "done"
    /\ UNCHANGED <<modules, nodes, edges, circular_dependencies, dependency_paths,
                   nFiles, current_file, declared,
                   basic_modules, inputs_name_module>>

\* The analyses as methods called on their own once the graph is built, in
\* any order and any number of times.
\* variant: the cycle search drops the self-loops it has reported
CallDetectCircularDependenciesPruning ==
    /\ pc = "built"
    /\ circular_dependencies' = SimpleCycles(nodes, edges)
    /\ edges' = {e \in edges : e[1] # e[2]}
    /\ UNCHANGED <<modules, nodes, dependency_paths, impact_analysis,
                   impact_report, pc, nFiles, current_file, declared,
                   basic_modules, inputs_name_module>>

CallDetectCircularDependencies ==
    /\ pc = "built"
    /\ circular_dependencies' = SimpleCycles(nodes, edges)
    /\ UNCHANGED <<modules, nodes, edges, dependency_paths, impact_analysis,
                   impact_report, pc, nFiles, current_file, declared,
                   basic_modules, inputs_name_module>>

CallAnalyzeDependencyPaths ==
    /\ pc = "built"
    /\ dependency_paths' = DependencyPaths(modules, edges)
    /\ UNCHANGED <<modules, nodes, edges, circular_dependencies, impact_analysis,
                   impact_report, pc, nFiles, current_file, declared,
                   basic_modules, inputs_name_module>>

CallGenerateImpactReport ==
    /\ pc = "built"
    /\ LET impact == [m \in DOMAIN modules |-> ImpactSet(modules, edges, m)]
       IN /\ impact_analysis' = impact
          /\ \E order \in IterationOrders(DOMAIN modules) :
                impact_report' = ImpactReport(modules, impact, order)
    /\ UNCHANGED <<modules, nodes, edges, circular_dependencies, dependency_paths,
                   pc, nFiles, current_file, declared,
                   basic_modules, inputs_name_module>>

\* analyze_impact(module_name): the set it returns
AnalyzeImpactReturn(mods, E, module_name) ==
    IF module_name \notin DOMAIN mods THEN {}
    ELSE ImpactSet(mods, E, module_name)

\* variant: an unknown name gets an empty entry
AnalyzeImpactStoreAlways(mods, E, impact, module_name) ==
    Put(impact, module_name, AnalyzeImpactReturn(mods, E, module_name))

\* analyze_impact(module_name): the impact_analysis mapping it leaves
AnalyzeImpactStore(mods, E, impact, module_name) ==
    IF module_name \notin DOMAIN mods THEN impact
    ELSE Put(impact, module_name, ImpactSet(mods, E, module_name))

\* a call of analyze_impact on the built graph
CallAnalyzeImpact(module_name) ==
    /\ pc = "built"
    /\ impact_analysis' = AnalyzeImpactStore(modules, edges, impact_analysis, module_name)
    /\ UNCHANGED <<modules, nodes, edges, circular_dependencies, dependency_paths,
                   impact_report, pc, nFiles, current_file, declared,
                   basic_modules, inputs_name_module>>

\* results['total_modules'] of analyze()
TotalModules == Cardinality(DOMAIN modules)

\* results['complexity_analysis'] of analyze(): three lists of module names
HighComplexity(mods) ==
    LET High(m) == mods[m].complexity_score > HighComplexityThreshold
    IN SelectSeq(SetToSeq(DOMAIN mods), High)

\* variant: a score of MediumComplexityThreshold is medium as well
MediumComplexityInclusive(mods) ==
    LET Medium(m) == /\ MediumComplexityThreshold <= mods[m].complexity_score
                     /\ mods[m].complexity_score <= HighComplexityThreshold
    IN SelectSeq(SetToSeq(DOMAIN mods), Medium)

MediumComplexity(mods) ==
    LET Medium(m) == /\ MediumComplexityThreshold < mods[m].complexity_score
                     /\ mods[m].complexity_score <= HighComplexityThreshold
    IN SelectSeq(SetToSeq(DOMAIN mods), Medium)

LowComplexity(mods) ==
    LET Low(m) == mods[m].complexity_score <= MediumComplexityThreshold
    IN SelectSeq(SetToSeq(DOMAIN mods), Low)

\* results['total_dependencies'] of analyze()
TotalDependencies == Cardinality(edges)

Analyses ==
    \/ BuildDependencyGraph
    \/ DetectCircularDependencies
    \/ AnalyzeDependencyPaths
    \/ GenerateImpactReport

-----------------------------------------------------------------------------
(* Configuration files the parsers are given *)

ModuleExpr(n) == <<"module", n, "id">>
DataAmi == <<"data", "aws_ami", "ubuntu", "id">>
RemoteNet == <<"data", "terraform_remote_state", "net", "outputs", "vpc_id">>
Literal == <<"var", "region">>

\* config_path values: "../../net/<n>" and "../<n>"
ConfigPath(n) == <<"..", "..", "net", n>>
SiblingPath(n) == <<"..", n>>

TerragruntFile(dir, ok, dependency, hasInputs, inputs) ==
    [kind |-> "terragrunt", dir |-> dir, ok |-> ok, dependency |-> dependency,
     hasInputs |-> hasInputs, inputs |-> inputs]

ModuleBlock(name, hasVariables, variables, attrs) ==
    [name |-> name, hasVariables |-> hasVariables, variables |-> variables,
     attrs |-> attrs]

TerraformFile(ok, module, data, output, resource) ==
    [kind |-> "terraform", ok |-> ok, malformed |-> "none",
     module |-> module, data |-> data, output |-> output, resource |-> resource]

\* A file that hcl2 parses but in which `section` ("data", "output" or
\* "resource") is a top-level attribute (output = "x") instead of blocks:
\* iterating it raises, after the sections before it have been processed.
MalformedTerraformFile(module, data, output, resource, section) ==
    [TerraformFile(TRUE, module, data, output, resource) EXCEPT !.malformed = section]

\* the parser logged an error for the file and went on to the next one
FileFailed(f) ==
    \/ ~f.ok
    \/ f.kind = "terraform" /\ f.malformed # "none"

\* Extraction-oriented file set: modules "a" and "b" have files, "c" has none.
Declared == {"a", "b"}
Referenced == {"a", "b", "c"}

Payloads ==
    {<<>>, <<Literal>>, <<DataAmi>>, <<RemoteNet>>,
     <<DataAmi, ModuleExpr("a")>>, <<DataAmi, DataAmi>>}
    \cup {<<ModuleExpr(n)>> : n \in Referenced}

DependencyBlocks ==
    {<<>>, <<SiblingPath("b")>>, <<SiblingPath("b"), ConfigPath("c")>>}
    \cup {<<ConfigPath(n)>> : n \in Referenced}

TerragruntFiles ==
    {TerragruntFile(d, TRUE, deps, TRUE, p) :
        d \in Declared, deps \in DependencyBlocks, p \in Payloads}
    \cup {TerragruntFile("a", TRUE, <<ConfigPath("b")>>, FALSE, <<>>),
          TerragruntFile("a", FALSE, <<>>, FALSE, <<>>)}

ModuleBlocks ==
    {ModuleBlock(n, FALSE, <<>>, attrs) :
        n \in Declared, attrs \in {<<>>} \cup {<<ModuleExpr(r)>> : r \in Referenced}}
    \cup {ModuleBlock(n, TRUE, v, <<>>) :
        n \in Declared, v \in {<<ModuleExpr("a")>>, <<DataAmi>>, <<RemoteNet>>}}

TerraformFiles ==
    {TerraformFile(TRUE, <<b>>, <<>>, <<>>, <<>>) : b \in ModuleBlocks}
    \cup {TerraformFile(TRUE, <<>>, <<[name |-> "aws_ami", config |-> <<ModuleExpr(r)>>]>>,
                        <<>>, <<>>) : r \in {"a", "c"}}
    \cup {TerraformFile(TRUE, <<>>, <<>>,
                        <<[hasValue |-> TRUE, value |-> <<ModuleExpr(r)>>]>>, <<>>) :
             r \in Referenced}
    \cup {TerraformFile(TRUE, <<>>, <<>>, <<>>,
                        <<[type |-> "aws_instance", config |-> <<ModuleExpr(r)>>]>>) :
             r \in {"a", "b"}}
    \cup {TerraformFile(TRUE,
                        <<ModuleBlock("b", FALSE, <<>>, <<ModuleExpr("a")>>)>>,
                        <<[name |-> "aws_ami", config |-> <<ModuleExpr("b")>>]>>,
                        <<[hasValue |-> FALSE, value |-> <<>>],
                          [hasValue |-> TRUE, value |-> <<ModuleExpr("b")>>]>>,
                        <<[type |-> "aws_instance", config |-> <<ModuleExpr("b")>>]>>),
          TerraformFile(FALSE, <<>>, <<>>, <<>>, <<>>),
          MalformedTerraformFile(
              <<ModuleBlock("a", FALSE, <<>>, <<ModuleExpr("b")>>)>>,
              <<>>, <<>>, <<>>, "output"),
          MalformedTerraformFile(
              <<>>, <<[name |-> "aws_ami", config |-> <<ModuleExpr("a")>>]>>,
              <<>>, <<>>, "resource")}

Next ==
    \/ \E f \in TerragruntFiles : ParseTerragruntFile(f)
    \/ \E f \in TerraformFiles : ParseTerraformFile(f)
    \/ Analyses

Spec == Init /\ [][Next]_vars

\* Graph-oriented file set: three modules whose files carry only references
\* to one another, so that every shape of small graph is built.
GraphNames == {"a", "b", "c"}

\* payloads naming one or two modules
GraphPayloads ==
    {<<>>} \cup {<<ModuleExpr(n)>> : n \in GraphNames}
    \cup {<<ModuleExpr("a"), ModuleExpr("b")>>,
          <<ModuleExpr("b"), ModuleExpr("c")>>,
          <<ModuleExpr("c"), ModuleExpr("a")>>}

\* the directory a dependency block of directory d may point to, besides d
GraphNeighbour == [d \in GraphNames |->
                      IF d = "a" THEN "b" ELSE IF d = "b" THEN "c" ELSE "a"]

\* A module's inputs name any of the other modules; its dependency block, if
\* any, names the module itself or its neighbour.
GraphTerragruntFiles ==
    {TerragruntFile(x[1], TRUE, x[2], TRUE, x[3]) :
        x \in {y \in GraphNames
                     \X ({<<>>} \cup {<<ConfigPath(n)>> : n \in GraphNames})
                     \X GraphPayloads :
                 /\ y[2] \in {<<>>, <<ConfigPath(y[1])>>,
                              <<ConfigPath(GraphNeighbour[y[1]])>>}
                 /\ ModuleExpr(y[1]) \notin Range(y[3])}}

GraphTerraformFiles ==
    {TerraformFile(TRUE, <<ModuleBlock(n, FALSE, <<>>, <<ModuleExpr(r)>>)>>,
                   <<>>, <<>>, <<>>) : n \in GraphNames, r \in {"a", "d"}}

NextGraph ==
    \/ \E f \in GraphTerragruntFiles : ParseTerragruntFile(f)
    \/ \E f \in GraphTerraformFiles : ParseTerraformFile(f)
    \/ Analyses

SpecGraph == Init /\ [][NextGraph]_vars

\* Impact-oriented file set: five modules, declared several to a .tf file, so
\* that a module can affect three or four others.
InlineModules(pairs) ==
    [i \in 1..Len(pairs) |->
        ModuleBlock(pairs[i][1], FALSE, <<>>, <<ModuleExpr(pairs[i][2])>>)]

ImpactTerragruntFiles ==
    {TerragruntFile(n, TRUE, <<>>, TRUE, p) :
        n \in {"a", "e"}, p \in {<<>>, <<ModuleExpr("a")>>, <<ModuleExpr("e")>>}}

ImpactTerraformFiles ==
    {TerraformFile(TRUE, InlineModules(pairs), <<>>, <<>>, <<>>) :
        pairs \in {<< <<"b", "a">>, <<"c", "a">>, <<"d", "a">>, <<"e", "a">> >>,
                   << <<"b", "a">>, <<"c", "a">>, <<"d", "a">> >>,
                   << <<"b", "a">>, <<"c", "b">>, <<"d", "c">>, <<"e", "d">> >>,
                   << <<"c", "b">>, <<"d", "c">> >>,
                   << <<"b", "e">> >>}}

NextImpact ==
    \/ \E f \in ImpactTerragruntFiles : ParseTerragruntFile(f)
    \/ \E f \in ImpactTerraformFiles : ParseTerraformFile(f)
    \/ Analyses

SpecImpact == Init /\ [][NextImpact]_vars

\* Cycle-oriented file set: two modules that may name themselves and each
\* other, and a third that depends on the first.
CycleTerragruntFiles ==
    {TerragruntFile(d, TRUE, deps, TRUE, p) :
        d \in {"a", "b"},
        deps \in {<<>>, <<ConfigPath("a")>>, <<ConfigPath("b")>>},
        p \in {<<>>, <<ModuleExpr("a")>>, <<ModuleExpr("b")>>}}

CycleTerraformFiles ==
    {TerraformFile(TRUE, InlineModules(<< <<"c", r>> >>), <<>>, <<>>, <<>>) :
        r \in {"a", "c"}}

NextCycles ==
    \/ \E f \in CycleTerragruntFiles : ParseTerragruntFile(f)
    \/ \E f \in CycleTerraformFiles : ParseTerraformFile(f)
    \/ Analyses

\* analyze() is one sequential call: once the files are read each analysis
\* step is taken as soon as the one before it has returned.
SpecCyclesFair == Init /\ [][NextCycles]_vars /\ WF_vars(Analyses)

\* The cycle-oriented files, with the analyses called in any order.
NextAnyOrder ==
    \/ \E f \in CycleTerragruntFiles : ParseTerragruntFile(f)
    \/ \E f \in CycleTerraformFiles : ParseTerraformFile(f)
    \/ BuildDependencyGraph
    \/ CallDetectCircularDependencies
    \/ CallAnalyzeDependencyPaths
    \/ CallGenerateImpactReport

SpecAnyOrder == Init /\ [][NextAnyOrder]_vars

\* The cycle-oriented files, followed by calls of analyze_impact for names
\* that are registered and names that are not ("z" never is).
ImpactQueryNames == {"a", "b", "c", "z"}

NextImpactQueries ==
    \/ \E f \in CycleTerragruntFiles : ParseTerragruntFile(f)
    \/ \E f \in CycleTerraformFiles : ParseTerraformFile(f)
    \/ BuildDependencyGraph
    \/ \E n \in ImpactQueryNames : CallAnalyzeImpact(n)

SpecImpactQueries == Init /\ [][NextImpactQueries]_vars

-----------------------------------------------------------------------------
(* Properties.  Graph notions used to state them, defined on the node and  *)
(* edge sets without reference to the searches above.                      *)

\* all sequences of k pairwise distinct elements of N
RECURSIVE DistinctSeqs(_, _)
DistinctSeqs(N, k) ==
    IF k = 0 THEN {<<>>}
    ELSE {Append(x[1], x[2]) :
             x \in {y \in DistinctSeqs(N, k - 1) \X N : y[2] \notin Range(y[1])}}

SimpleSeqs(N) == UNION {DistinctSeqs(N, k) : k \in 1..Cardinality(N)}

FollowsEdges(p, E) == \A i \in 1..(Len(p) - 1) : <<p[i], p[i+1]>> \in E

\* the simple paths from s to t, s # t
SimplePathSet(N, E, s, t) ==
    {p \in SimpleSeqs(N) : Len(p) >= 2 /\ p[1] = s /\ Last(p) = t /\ FollowsEdges(p, E)}

IsElementaryCycle(p, N, E) ==
    /\ Len(p) >= 1
    /\ Range(p) \subseteq N
    /\ Cardinality(Range(p)) = Len(p)
    /\ FollowsEdges(p, E)
    /\ <<Last(p), p[1]>> \in E

IsRotation(p, q) ==
    /\ Len(p) = Len(q)
    /\ \E k \in 0..(Len(p) - 1) :
          \A i \in 1..Len(p) : q[i] = p[((i - 1 + k) % Len(p)) + 1]

GraphBuilt == pc \in {"built", "cycles", "paths", "done"}

\* C1: for every registered module M, analyze_impact(M) stores and returns
\* exactly the registered modules other than M to which a directed path
\* leads from M, also when M lies on a cycle or carries a self-loop.
Thm_C1_ImpactIsReachability ==
    pc = "done" =>
        /\ DOMAIN impact_analysis = DOMAIN modules
        /\ \A M \in DOMAIN modules :
              impact_analysis[M] =
                  {t \in DOMAIN modules \ {M} : SimplePathSet(nodes, edges, M, t) # {}}

\* a module with a self-loop, on a 3-cycle, one of whose affected modules is
\* reached only indirectly
Wit_C1_CycleAndSelfLoop ==
    /\ pc = "done"
    /\ \E M \in DOMAIN modules : \E t \in DOMAIN modules : \E u \in DOMAIN modules :
          /\ M # t /\ t # u /\ M # u
          /\ {<<M, M>>, <<M, t>>, <<t, u>>, <<u, M>>} \subseteq edges
          /\ <<M, u>> \notin edges
          /\ impact_analysis[M] = {t, u}

\* C2: once the graph is built its nodes are the registry keys, and d -> m is
\* an edge exactly when d and m are registry keys and d occurs in m's
\* dependencies or terragrunt_dependencies; a dependency name that is not a
\* key gives neither an edge nor a node.
Thm_C2_GraphMatchesRegistry ==
    GraphBuilt =>
        /\ nodes = DOMAIN modules
        /\ edges = {e \in (DOMAIN modules) \X (DOMAIN modules) :
                       e[1] \in Range(modules[e[2]].dependencies)
                                \cup Range(modules[e[2]].terragrunt_dependencies)}

\* a built graph with an edge, whose registry also names a dependency that
\* is not registered
Wit_C2_UnregisteredDependency ==
    /\ pc = "built"
    /\ edges # {}
    /\ \E m \in DOMAIN modules :
          \E d \in Range(modules[m].dependencies)
                   \cup Range(modules[m].terragrunt_dependencies) :
              d \notin DOMAIN modules

CyclesDetected == pc \in {"cycles", "paths", "done"}

\* C3: circular_dependencies lists elementary cycles only, lists a rotation
\* of every elementary cycle of the graph, and lists no cycle twice (no two
\* entries are rotations of one another).
Thm_C3_ElementaryCyclesOnce ==
    CyclesDetected =>
        /\ \A i \in 1..Len(circular_dependencies) :
              IsElementaryCycle(circular_dependencies[i], nodes, edges)
        /\ \A p \in SimpleSeqs(nodes) :
              IsElementaryCycle(p, nodes, edges) =>
                  \E i \in 1..Len(circular_dependencies) :
                      IsRotation(circular_dependencies[i], p)
        /\ \A i \in 1..Len(circular_dependencies) :
              \A j \in 1..Len(circular_dependencies) :
                  i # j => ~IsRotation(circular_dependencies[i], circular_dependencies[j])

\* both 3-cycles over three modules together with a self-loop
Wit_C3_OverlappingCycles ==
    /\ pc = "cycles"
    /\ \E i \in 1..Len(circular_dependencies) :
          \E j \in 1..Len(circular_dependencies) :
              \E k \in 1..Len(circular_dependencies) :
                  /\ i # j
                  /\ Len(circular_dependencies[i]) = 3
                  /\ Len(circular_dependencies[j]) = 3
                  /\ Len(circular_dependencies[k]) = 1

PathsAnalyzed == pc \in {"paths", "done"}

\* C4: for distinct registered modules s and t, the entry of dependency_paths
\* for (s, t) lists every simple path from s to t, each once, and nothing
\* else; the entry is absent exactly when there is no such path.
Thm_C4_AllSimplePaths ==
    PathsAnalyzed =>
        /\ DOMAIN dependency_paths \subseteq
               {q \in (DOMAIN modules) \X (DOMAIN modules) : q[1] # q[2]}
        /\ \A s \in DOMAIN modules : \A t \in DOMAIN modules \ {s} :
              LET expected == SimplePathSet(nodes, edges, s, t)
              IN IF expected = {}
                 THEN <<s, t>> \notin DOMAIN dependency_paths
                 ELSE /\ <<s, t>> \in DOMAIN dependency_paths
                      /\ Range(dependency_paths[<<s, t>>]) = expected
                      /\ Len(dependency_paths[<<s, t>>]) = Cardinality(expected)

\* a pair joined by two paths, the longer through a third module, while the
\* reverse pair has no path and no entry
Wit_C4_TwoPathsOneWay ==
    /\ pc = "paths"
    /\ \E s \in DOMAIN modules : \E t \in DOMAIN modules :
          /\ s # t
          /\ <<s, t>> \in DOMAIN dependency_paths
          /\ Len(dependency_paths[<<s, t>>]) = 2
          /\ \E i \in 1..2 : Len(dependency_paths[<<s, t>>][i]) = 3
          /\ <<t, s>> \notin DOMAIN dependency_paths

-----------------------------------------------------------------------------
(* Registry properties *)

Details(M) == modules[M].dependency_details

ModuleKinds == {"module_output", "module_reference"}

\* C5: module.A.<attr> met while extracting for module A itself leaves no
\* module-output record from A to A, does not put A among A's dependencies
\* and gives no edge A -> A (such an edge exists only for a terragrunt
\* dependency of A on A).
Thm_C5_SelfMatchDiscarded ==
    \A M \in DOMAIN modules :
        /\ M \notin Range(modules[M].dependencies)
        /\ \A i \in 1..Len(Details(M)) :
              ~(/\ Details(M)[i].dependency_type \in ModuleKinds
                /\ Details(M)[i].source_module = M
                /\ Details(M)[i].target_module = M)
        /\ <<M, M>> \in edges => M \in Range(modules[M].terragrunt_dependencies)

\* the graph has been built from a registry in which some module's own
\* payload holds module.<itself>.id
Wit_C5_SelfExpressionParsed ==
    /\ pc = "built"
    /\ \E M \in DOMAIN modules : ModuleExpr(M) \in Range(modules[M].variables)

\* C6 as claimed: no record of kind module-output or external-dependency has
\* its source equal to its target, and a dependency block whose config_path
\* ends in the declaring directory's name adds nothing to
\* terragrunt_dependencies.
Cex_C6_NoSelfReferenceRecords ==
    \A M \in DOMAIN modules :
        /\ M \notin Range(modules[M].terragrunt_dependencies)
        /\ \A i \in 1..Len(Details(M)) :
              Details(M)[i].dependency_type \in ModuleKinds \cup {"terragrunt"}
                  => Details(M)[i].source_module # Details(M)[i].target_module

SpecifiedScore(info) ==
    1 + 2 * Len(info.dependencies) + 2 * Len(info.terragrunt_dependencies)
      + Len(info.variables) + Len(info.outputs) + 3 * Len(info.data_sources)

\* C8 as claimed: when the analysis is complete every descriptor's
\* complexity_score is the specified score of its final fields.
Cex_C8_ScoreOfFinalFields ==
    pc = "done" =>
        \A M \in DOMAIN modules : modules[M].complexity_score = SpecifiedScore(modules[M])

\* C9: for every descriptor, the score is not negative and grows strictly
\* when one entry is added to dependencies, to terragrunt_dependencies or to
\* data_sources, the other fields unchanged.
Thm_C9_ScoreMonotone ==
    \A M \in DOMAIN modules :
        LET info == modules[M]
            base == CalculateComplexityScore(info)
        IN /\ base >= 0
           /\ \A n \in Referenced :
                 /\ CalculateComplexityScore(
                        [info EXCEPT !.dependencies = Append(@, n)]) > base
                 /\ CalculateComplexityScore(
                        [info EXCEPT !.terragrunt_dependencies = Append(@, n)]) > base
                 /\ CalculateComplexityScore(
                        [info EXCEPT !.data_sources = Append(@, <<"aws_ami", n>>)]) > base

\* a descriptor scored by parse_terragrunt_file with entries of all three kinds
Wit_C9_ScoredWithAllKinds ==
    \E M \in DOMAIN modules :
        /\ modules[M].dependencies # <<>>
        /\ modules[M].terragrunt_dependencies # <<>>
        /\ modules[M].data_sources # <<>>
        /\ modules[M].complexity_score = CalculateComplexityScore(modules[M])
        /\ modules[M].complexity_score >= 8

\* C10 as claimed: a data.terraform_remote_state.<name>.outputs.<attr>
\* expression gives one remote-state record, no data-source record for
\* terraform_remote_state.<name> and no such entry in data_sources.
Cex_C10_RemoteStateOnlyOnce ==
    \A M \in DOMAIN modules :
        /\ \A i \in 1..Len(Details(M)) :
              Details(M)[i].dependency_type = "data_source"
                  => Details(M)[i].target_module[1] # "terraform_remote_state"
        /\ \A j \in 1..Len(modules[M].data_sources) :
              modules[M].data_sources[j][1] # "terraform_remote_state"

-----------------------------------------------------------------------------
(* Error handling *)

\* C11 as claimed: a file whose processing fails (parse_terragrunt_file
\* returns None, or parse_terraform_files catches an exception for the file)
\* contributes no descriptor and changes no descriptor.
Cex_C11_FailedFileChangesNothing ==
    [][(nFiles' = nFiles + 1 /\ FileFailed(current_file')) => modules' = modules]_vars

-----------------------------------------------------------------------------
(* Determinism of the report *)

\* C12 as claimed: the report of a run does not depend on the order in which
\* sets are iterated: whatever the iteration order, the impact report of the
\* run (its affected_modules lists included) is the one produced.
Cex_C12_ReportIndependentOfIterationOrder ==
    pc = "done" =>
        \A order \in IterationOrders(DOMAIN modules) :
            impact_report = ImpactReport(modules, impact_analysis, order)

\* the registry holds no reference from one module to another
NoCrossReferences ==
    \A M \in DOMAIN modules :
        Range(modules[M].dependencies) \cup Range(modules[M].terragrunt_dependencies)
            \subseteq {M}

\* C13 as claimed: when no module references another, the finished analysis
\* reports no cycle, the graph has no edge and every impact_count is 0.
Cex_C13_NoReferencesNoEdges ==
    (pc = "done" /\ NoCrossReferences) =>
        /\ circular_dependencies = <<>>
        /\ edges = {}
        /\ \A M \in DOMAIN modules :
              impact_report.module_impact_analysis[M].impact_count = 0

\* the references the registry holds: d is named by m's dependencies or
\* terragrunt_dependencies, both being registered
RegistryReferences ==
    {r \in (DOMAIN modules) \X (DOMAIN modules) :
        r[1] \in Range(modules[r[2]].dependencies)
                 \cup Range(modules[r[2]].terragrunt_dependencies)}

\* C14: when a registered module B names a registered module A in its
\* dependencies, once or several times, the graph has the edge A -> B, has
\* B -> A only when A in turn names B, total_dependencies counts one edge per
\* pair of modules in reference, A's impact set contains B, and B's impact set
\* contains A only when a chain of references leads from B to A.
Thm_C14_OneEdgeDependencyToDependent ==
    pc = "done" =>
        /\ TotalDependencies = Cardinality(RegistryReferences)
        /\ \A A \in DOMAIN modules : \A B \in DOMAIN modules :
              (A # B /\ A \in Range(modules[B].dependencies)) =>
                  /\ <<A, B>> \in edges
                  /\ <<B, A>> \in edges => <<B, A>> \in RegistryReferences
                  /\ B \in impact_analysis[A]
                  /\ A \in impact_analysis[B] =>
                         SimplePathSet(DOMAIN modules, RegistryReferences, B, A) # {}

\* B names A twice and nothing leads back: one edge in all, A -> B
Wit_C14_RepeatedReference ==
    /\ pc = "done"
    /\ \E A \in DOMAIN modules : \E B \in DOMAIN modules :
          /\ A # B
          /\ Len(modules[B].dependencies) >= 2
          /\ Range(modules[B].dependencies) = {A}
          /\ edges = {<<A, B>>}
          /\ TotalDependencies = 1
          /\ impact_analysis[A] = {B}
          /\ impact_analysis[B] = {}

\* C15: the finished impact report has an entry for every registered module,
\* whose impact_count is the length of its affected_modules, a list without
\* repetition of the module's impact set; high_impact_modules lists, once
\* each, exactly the modules with more than 3 affected modules; and
\* recommendations has one entry for each of them.
Thm_C15_HighImpactAboveThree ==
    pc = "done" =>
        LET analysis == impact_report.module_impact_analysis
            high == impact_report.high_impact_modules
        IN /\ DOMAIN analysis = DOMAIN modules
           /\ \A m \in DOMAIN modules :
                 /\ analysis[m].impact_count = Len(analysis[m].affected_modules)
                 /\ Range(analysis[m].affected_modules) = impact_analysis[m]
                 /\ Cardinality(impact_analysis[m]) = analysis[m].impact_count
           /\ {high[i].module : i \in 1..Len(high)} =
                  {m \in DOMAIN modules : analysis[m].impact_count > 3}
           /\ Cardinality({high[i].module : i \in 1..Len(high)}) = Len(high)
           /\ \A i \in 1..Len(high) :
                 /\ high[i].impact_count = analysis[high[i].module].impact_count
                 /\ high[i].affected_modules = analysis[high[i].module].affected_modules
           /\ Len(impact_report.recommendations) = Len(high)
           /\ \A i \in 1..Len(high) : impact_report.recommendations[i] = high[i].module

\* one module affects four others and is listed, another affects exactly
\* three and is not
Wit_C15_ThreeAndFourAffected ==
    /\ pc = "done"
    /\ \E m \in DOMAIN modules : \E n \in DOMAIN modules :
          /\ impact_report.module_impact_analysis[m].impact_count = 4
          /\ impact_report.module_impact_analysis[n].impact_count = 3
          /\ Len(impact_report.high_impact_modules) = 1
          /\ impact_report.high_impact_modules[1].module = m
          /\ Len(impact_report.recommendations) = 1

\* the graph has an elementary cycle (a self-loop is one)
CyclicGraph ==
    \E p \in SimpleSeqs(nodes) : IsElementaryCycle(p, nodes, edges)

\* the three analyses have returned and the report is filled in
ReportComplete ==
    /\ pc = "done"
    /\ DOMAIN impact_analysis = DOMAIN modules
    /\ DOMAIN impact_report.module_impact_analysis = DOMAIN modules

\* C16: whenever the graph that was built contains a cycle or a self-loop,
\* cycle detection, path analysis and impact analysis all return, and the
\* finished report lists every cycle as an entry of circular_dependencies.
Thm_C16_CyclicGraphStillReported ==
    (pc = "built" /\ CyclicGraph) ~>
        (/\ ReportComplete
         /\ circular_dependencies # <<>>
         /\ \A p \in SimpleSeqs(nodes) :
               IsElementaryCycle(p, nodes, edges) =>
                   \E i \in 1..Len(circular_dependencies) :
                       IsRotation(p, circular_dependencies[i]))

\* a finished report on a graph with a self-loop and a longer cycle
Wit_C16_SelfLoopAndCycleReported ==
    /\ ReportComplete
    /\ \E n \in nodes : <<n, n>> \in edges
    /\ \E m \in nodes : \E n \in nodes : m # n /\ {<<m, n>>, <<n, m>>} \subseteq edges
    /\ Len(circular_dependencies) >= 2
    /\ DOMAIN dependency_paths # {}

\* the dependency blocks of a terragrunt.hcl whose config_path begins with
\* '../../', in file order
ParentTraversalBlocks(f) ==
    LET Begins(parts) == Len(parts) >= 3 /\ SubSeq(parts, 1, 2) = <<"..", "..">>
    IN SelectSeq(f.dependency, Begins)

\* the records of one dependency_type in a descriptor, in list order
DetailsOfType(info, type) ==
    LET IsType(d) == d.dependency_type = type
    IN SelectSeq(info.dependency_details, IsType)

\* C17: the descriptor returned for a terragrunt.hcl holds, for each dependency
\* block whose config_path begins with '../../' and for no other block, the
\* last segment of the path in terragrunt_dependencies and one "terragrunt"
\* record with that target and that path; and an edge of the graph always
\* comes from a name some descriptor recorded.
Thm_C17_ExternalRuleOnlyOnParentTraversal ==
    /\ (current_file.kind = "terragrunt" /\ current_file.ok) =>
          LET info == modules[current_file.dir]
              blocks == ParentTraversalBlocks(current_file)
          IN /\ info.terragrunt_dependencies =
                    [i \in 1..Len(blocks) |-> Last(blocks[i])]
             /\ DetailsOfType(info, "terragrunt") =
                    [i \in 1..Len(blocks) |->
                        DependencyInfo(current_file.dir, Last(blocks[i]),
                                       "terragrunt", blocks[i])]
    /\ GraphBuilt => edges \subseteq RegistryReferences

\* a file with a '../b' block, which is passed over, and a '../../net/c'
\* block, which is recorded
Wit_C17_SiblingPathPassedOver ==
    /\ current_file.kind = "terragrunt" /\ current_file.ok
    /\ current_file.dependency = <<SiblingPath("b"), ConfigPath("c")>>
    /\ modules[current_file.dir].terragrunt_dependencies = <<"c">>

\* C18: for a module M with the self-loop M -> M, detect_circular_dependencies
\* reports the one-element cycle [M], once; M is not in its own impact set;
\* and dependency_paths has no key M->M.
Thm_C18_SelfLoopIsCycleOfLengthOne ==
    \A M \in nodes :
        <<M, M>> \in edges =>
            /\ CyclesDetected =>
                  Cardinality({i \in 1..Len(circular_dependencies) :
                                  circular_dependencies[i] = <<M>>}) = 1
            /\ PathsAnalyzed => <<M, M>> \notin DOMAIN dependency_paths
            /\ pc = "done" =>
                  /\ M \notin impact_analysis[M]
                  /\ M \notin Range(impact_report.module_impact_analysis[M].affected_modules)

\* a finished analysis of a module with a self-loop that also lies on a cycle
\* through another module, so that it is reachable from itself
Wit_C18_SelfLoopOnLongerCycle ==
    /\ pc = "done"
    /\ \E M \in nodes : \E t \in nodes :
          /\ M # t
          /\ {<<M, M>>, <<M, t>>, <<t, M>>} \subseteq edges
          /\ \E i \in 1..Len(circular_dependencies) : circular_dependencies[i] = <<M>>
          /\ impact_analysis[M] # {}
          /\ <<M, t>> \in DOMAIN dependency_paths

\* descriptor `info` holds a record from its own module to `target` whose
\* dependency_type is one of `types`
HasRecord(info, target, types) ==
    \E j \in 1..Len(info.dependency_details) :
        /\ info.dependency_details[j].source_module = info.name
        /\ info.dependency_details[j].target_module = target
        /\ info.dependency_details[j].dependency_type \in types

\* C19: in every registry state each name in a descriptor's dependencies has,
\* in the same descriptor, a record of type module_output or module_reference
\* with that target, and each name in its terragrunt_dependencies a record of
\* type terragrunt, whether or not the target is registered; the graph has
\* edges between registered modules only.
Thm_C19_DependencyNamesHaveRecords ==
    /\ \A M \in DOMAIN modules :
          /\ modules[M].name = M
          /\ \A i \in 1..Len(modules[M].dependencies) :
                HasRecord(modules[M], modules[M].dependencies[i], ModuleKinds)
          /\ \A i \in 1..Len(modules[M].terragrunt_dependencies) :
                HasRecord(modules[M], modules[M].terragrunt_dependencies[i],
                          {"terragrunt"})
    /\ GraphBuilt => edges \subseteq (DOMAIN modules) \X (DOMAIN modules)

\* a graph built from a registry in which one module names, by both rules,
\* modules that are not registered
Wit_C19_RecordsForUnregisteredTargets ==
    /\ GraphBuilt
    /\ \E M \in DOMAIN modules :
          /\ \E i \in 1..Len(modules[M].dependencies) :
                modules[M].dependencies[i] \notin DOMAIN modules
          /\ \E i \in 1..Len(modules[M].terragrunt_dependencies) :
                modules[M].terragrunt_dependencies[i] \notin DOMAIN modules
          /\ edges = {}

\* C20 as claimed: the data_sources of the descriptor returned for a
\* terragrunt.hcl hold '<type>.<name>' exactly for the expressions
\* data.<type>.<name>.<attr> of its inputs, each at most once.
Cex_C20_DataSourcesIsASet ==
    (current_file.kind = "terragrunt" /\ current_file.ok /\ current_file.hasInputs) =>
        LET ds == modules[current_file.dir].data_sources
            refs == DataRefs(current_file.inputs)
        IN /\ Range(ds) = {<<refs[i][1], refs[i][2]>> : i \in 1..Len(refs)}
           /\ Cardinality(Range(ds)) = Len(ds)

\* C21 as claimed: no step removes a registry key, and what a descriptor
\* holds in terragrunt_dependencies, dependencies and dependency_details is
\* still in the descriptor of that name after the step.
Cex_C21_DescriptorUpdatedNotReplaced ==
    [][\A M \in DOMAIN modules :
          /\ M \in DOMAIN modules'
          /\ Range(modules[M].terragrunt_dependencies)
                 \subseteq Range(modules'[M].terragrunt_dependencies)
          /\ Range(modules[M].dependencies) \subseteq Range(modules'[M].dependencies)
          /\ Range(modules[M].dependency_details)
                 \subseteq Range(modules'[M].dependency_details)]_vars

\* C22: the registry changes only before build_dependency_graph has run;
\* nodes and edges are written only by the step that builds the graph, which
\* ends the reading of files; and the three results are written only after
\* the graph is built.
Thm_C22_ReadBarrierBeforeBuild ==
    [][/\ modules' # modules => (Parsing /\ Parsing')
       /\ (nodes' # nodes \/ edges' # edges) => (Parsing /\ pc' = "built")
       /\ GraphBuilt => (GraphBuilt' /\ modules' = modules /\ nFiles' = nFiles)
       /\ (\/ circular_dependencies' # circular_dependencies
           \/ dependency_paths' # dependency_paths
           \/ impact_analysis' # impact_analysis
           \/ impact_report' # impact_report) => GraphBuilt]_vars

\* a finished run over files of both kinds, with edges and a cycle
Wit_C22_BothLoopsThenAnalyses ==
    /\ pc = "done"
    /\ \E M \in DOMAIN modules : DetailsOfType(modules[M], "terragrunt") # <<>>
    /\ \E M \in DOMAIN modules : DetailsOfType(modules[M], "module_reference") # <<>>
    /\ edges # {}
    /\ circular_dependencies # <<>>
    /\ DOMAIN dependency_paths # {}

\* C23: once the graph is built, a call of an analysis leaves the registry,
\* the nodes and the edges as they are and writes its own result only, and
\* the result it writes is the one determined by the graph, whichever of the
\* other analyses have run before it.
Thm_C23_AnalysesIndependent ==
    [][GraphBuilt =>
          /\ modules' = modules /\ nodes' = nodes /\ edges' = edges
          /\ circular_dependencies' # circular_dependencies =>
                /\ circular_dependencies' = SimpleCycles(nodes, edges)
                /\ dependency_paths' = dependency_paths
                /\ impact_analysis' = impact_analysis
          /\ dependency_paths' # dependency_paths =>
                /\ dependency_paths' = DependencyPaths(modules, edges)
                /\ circular_dependencies' = circular_dependencies
                /\ impact_analysis' = impact_analysis
          /\ impact_analysis' # impact_analysis =>
                /\ impact_analysis' =
                       [m \in DOMAIN modules |-> ImpactSet(modules, edges, m)]
                /\ circular_dependencies' = circular_dependencies
                /\ dependency_paths' = dependency_paths]_vars

\* the impact and path analyses have run on a cyclic graph before the cycle
\* detection
Wit_C23_ImpactBeforeCycles ==
    /\ pc = "built"
    /\ CyclicGraph
    /\ circular_dependencies = <<>>
    /\ DOMAIN dependency_paths # {}
    /\ modules # <<>>
    /\ DOMAIN impact_analysis = DOMAIN modules

\* the fields of the registry the order of the files should not matter for
RegistryView(mods) ==
    [m \in DOMAIN mods |->
        [dependencies |-> mods[m].dependencies,
         terragrunt_dependencies |-> mods[m].terragrunt_dependencies,
         outputs |-> mods[m].outputs,
         dependency_details |-> mods[m].dependency_details]]

\* the registry after the .tf files f and g are processed in that order
AfterTerraformFiles(mods, f, g) ==
    TerraformFileEffect(TerraformFileEffect(mods, f), g)

\* C24 as claimed: whatever the registry holds when two .tf files come up,
\* processing them in either order gives the same registry and the same
\* edges.
Cex_C24_FileOrderIrrelevant ==
    Parsing =>
        \A f \in TerraformFiles : \A g \in TerraformFiles :
            (f.ok /\ g.ok) =>
                /\ RegistryView(AfterTerraformFiles(modules, f, g)) =
                       RegistryView(AfterTerraformFiles(modules, g, f))
                /\ BuildGraph([nodes |-> {}, edges |-> {}],
                              AfterTerraformFiles(modules, f, g)).edges =
                   BuildGraph([nodes |-> {}, edges |-> {}],
                              AfterTerraformFiles(modules, g, f)).edges

\* C25 as claimed: every record in a descriptor's dependency_details has the
\* descriptor's module as its source_module.
Cex_C25_RecordsStoredUnderSource ==
    \A M \in DOMAIN modules :
        \A j \in 1..Len(Details(M)) : Details(M)[j].source_module = M

\* the first position in `payload` of an expression beginning with `path`
FirstPosition(payload, path) ==
    CHOOSE k \in 1..Len(payload) :
        /\ Len(payload[k]) >= Len(path)
        /\ SubSeq(payload[k], 1, Len(path)) = path
        /\ \A h \in 1..(k - 1) :
              ~(Len(payload[h]) >= Len(path) /\ SubSeq(payload[h], 1, Len(path)) = path)

\* C26 as claimed: the records extracted from the inputs of a terragrunt.hcl
\* stand in the descriptor in the order in which their expressions occur in
\* the inputs, whatever rule matched them.
Cex_C26_RecordsInPayloadOrder ==
    (current_file.kind = "terragrunt" /\ current_file.ok /\ current_file.hasInputs) =>
        LET info == modules[current_file.dir]
            IsExtracted(d) == d.dependency_type \in
                                 {"module_output", "data_source", "remote_state"}
            recs == SelectSeq(info.dependency_details, IsExtracted)
        IN \A i \in 1..Len(recs) : \A j \in 1..Len(recs) :
              i < j => FirstPosition(current_file.inputs, recs[i].reference_path)
                           <= FirstPosition(current_file.inputs, recs[j].reference_path)

\* C27: in the finished report, for distinct registered modules s and t the
\* key s->t is in dependency_paths exactly when t is among the
\* affected_modules of s.
Thm_C27_PathsAgreeWithImpact ==
    pc = "done" =>
        \A s \in DOMAIN modules : \A t \in DOMAIN modules :
            s # t =>
                (<<s, t>> \in DOMAIN dependency_paths
                    <=> t \in Range(impact_report.module_impact_analysis[s].affected_modules))

\* t is reached from s through a third module only, and s is not reached
\* from t
Wit_C27_IndirectOneWay ==
    /\ pc = "done"
    /\ \E s \in DOMAIN modules : \E t \in DOMAIN modules :
          /\ s # t
          /\ <<s, t>> \notin edges
          /\ <<s, t>> \in DOMAIN dependency_paths
          /\ t \in Range(impact_report.module_impact_analysis[s].affected_modules)
          /\ <<t, s>> \notin DOMAIN dependency_paths
          /\ s \notin Range(impact_report.module_impact_analysis[t].affected_modules)

\* C28: in the finished report every registered module is in exactly one of
\* high_complexity (score > 10), medium_complexity (5 < score <= 10) and
\* low_complexity (score <= 5), once, and total_modules is the sum of the
\* lengths of the three lists.
Thm_C28_ComplexityBucketsPartition ==
    pc = "done" =>
        LET high == HighComplexity(modules)
            medium == MediumComplexity(modules)
            low == LowComplexity(modules)
        IN /\ \A m \in DOMAIN modules :
                 /\ m \in Range(high) <=> modules[m].complexity_score > 10
                 /\ m \in Range(medium) <=> (/\ 5 < modules[m].complexity_score
                                             /\ modules[m].complexity_score <= 10)
                 /\ m \in Range(low) <=> modules[m].complexity_score <= 5
                 /\ Cardinality({b \in {"high", "medium", "low"} :
                        m \in Range(CASE b = "high" -> high
                                      [] b = "medium" -> medium
                                      [] OTHER -> low)}) = 1
           /\ Range(high) \cup Range(medium) \cup Range(low) = DOMAIN modules
           /\ TotalModules = Len(high) + Len(medium) + Len(low)

\* a finished report with a module at each bucket boundary: score 5 is low,
\* score 10 is medium
Wit_C28_ScoresAtBoundaries ==
    /\ pc = "done"
    /\ \E m \in DOMAIN modules : \E n \in DOMAIN modules :
          /\ modules[m].complexity_score = 5
          /\ modules[n].complexity_score = 10
          /\ LowComplexity(modules) = <<m>>
          /\ MediumComplexity(modules) = <<n>>
          /\ HighComplexity(modules) = <<>>

\* C29: for a name that is not a registry key analyze_impact returns the
\* empty set, and a step that is such a call changes nothing: the
\* impact_analysis mapping gets no entry, registry and graph stay as they are.
Thm_C29_UnknownNameNoEffect ==
    [][\A n \in ImpactQueryNames \ DOMAIN modules :
          /\ AnalyzeImpactReturn(modules, edges, n) = {}
          /\ CallAnalyzeImpact(n) =>
                /\ impact_analysis' = impact_analysis
                /\ n \notin DOMAIN impact_analysis'
                /\ modules' = modules /\ nodes' = nodes /\ edges' = edges]_vars

\* analyze_impact has been called for every registered module, one of which
\* names a module that is not registered, and no entry exists for that name
Wit_C29_UnknownNameNamedByModule ==
    /\ pc = "built"
    /\ modules # <<>>
    /\ DOMAIN impact_analysis = DOMAIN modules
    /\ \E M \in DOMAIN modules : \E i \in 1..Len(modules[M].terragrunt_dependencies) :
          /\ modules[M].terragrunt_dependencies[i] \in ImpactQueryNames
          /\ modules[M].terragrunt_dependencies[i] \notin DOMAIN modules
          /\ modules[M].terragrunt_dependencies[i] \notin DOMAIN impact_analysis

====
